---------------------------- MODULE Spec2Model ----------------------------
(***************************************************************************)
(* Force-plate analysis: app.py main() driving                             *)
(* utils/data_processor.py process_force_data and find_balance_point.      *)
(*                                                                         *)
(* A DataFrame is [columns, rows]: columns is the sequence of column       *)
(* names, rows the sequence of rows, each row a sequence of one integer    *)
(* per column.  read_csv gives the frame a RangeIndex, so the label of a   *)
(* row is its 0-based position: label k is rows[k + 1].                    *)
(* Forces are integers in units of 0.1 N (9.9 N is 99); times are          *)
(* integers.  The source's std_threshold=1 (newton) is 10 in these units.  *)
(***************************************************************************)
EXTENDS Integers, Sequences, FiniteSets, TLC

VARIABLES
    pc,              \* position in main / process_force_data / find_balance_point
    caller,          \* "main": app.py main().  "direct": process_force_data's steps on a
                     \* frame, the call of :89 passing window_size and std_threshold
    df,              \* the DataFrame
    time_column,     \* st.selectbox result (app.py:35)
    force_column,    \* st.selectbox result (app.py:52)
    warnings,        \* roles named by st.warning (data_processor.py:69-73)
    min_force_idx,   \* data_processor.py:77
    max_force_idx,   \* data_processor.py:83 / parameter of find_balance_point
    window_size,     \* parameter of find_balance_point
    std_threshold,   \* parameter of find_balance_point
    i,               \* loop variable of data_processor.py:39
    current_idx,     \* data_processor.py:40 (or last_idx, :54), -1 before
    window_data,     \* data_processor.py:42: [first, last] labels and force values
    examined,        \* history: the current_idx values the loop has tested, in order
    by_scan,         \* history: TRUE iff point_c was returned at :48, FALSE at :55
    point_a,
    point_b,
    point_c,
    points,          \* second component of process_force_data's return value
    error,           \* the exception that ended the run, "" if none
    report,          \* generate_pdf_report has run (app.py:131)
    download         \* st.download_button has been offered (app.py:135)

vars == <<pc, caller, df, time_column, force_column, warnings, min_force_idx,
          max_force_idx, window_size, std_threshold, i, current_idx, window_data,
          examined, by_scan, point_a, point_b, point_c, points, error, report, download>>

(***************************************************************************)
(* Bounds of the model and program constants.                              *)
(***************************************************************************)
MaxLen == 3            \* rows of an uploaded CSV (short files)
MaxScanLen == 5        \* rows of a series handed to find_balance_point directly
MaxWindow == 2         \* window_size of a direct call ranges over 0..MaxWindow

DefaultWindowSize == 30     \* window_size=30
DefaultStdThreshold == 10   \* std_threshold=1 (N), in units of 0.1 N

None == <<>>
NoPoint == [time |-> 0, force |-> 0]
NoWindow == [first |-> 0, last |-> -1, force |-> <<>>]

Times == {0, 1}
Forces == {0, 10, 100}
ScanForces == {0, 10, 20}
Thresholds == {-10, 0, 2, 10, 11}
HeaderNames == {"time", "force", "x"}

(***************************************************************************)
(* DataFrame helpers.                                                      *)
(***************************************************************************)
Range(s) == {s[k] : k \in DOMAIN s}

SeqsUpTo(S, n) == UNION {[1..k -> S] : k \in 0..n}

\* len(df)
NRows(d) == Len(d.rows)

\* position of column `name` (the frame has the column, once)
ColPos(d, name) == CHOOSE k \in DOMAIN d.columns : d.columns[k] = name

\* df[name] as a sequence of values
Column(d, name) == [k \in 1..NRows(d) |-> d.rows[k][ColPos(d, name)]]

\* df.loc[label, name] on a RangeIndex
Loc(d, label, name) == d.rows[label + 1][ColPos(d, name)]

Max(a, b) == IF a >= b THEN a ELSE b
Min(a, b) == IF a <= b THEN a ELSE b

\* df.loc[lo:hi, name]: label slice on a RangeIndex, both ends included; labels
\* outside the index are left out.  The slice with its first and last label.
LocSlice(d, lo, hi, name) ==
    LET first == Max(lo, 0)
        last == Min(hi, NRows(d) - 1)
    IN  [first |-> first, last |-> last,
         force |-> [k \in 1..(last - first + 1) |-> Loc(d, first + k - 1, name)]]

\* s[lo] + ... + s[hi], halving the range
RECURSIVE SumRange(_, _, _)
SumRange(s, lo, hi) ==
    IF lo > hi THEN 0
    ELSE IF lo = hi THEN s[lo]
    ELSE LET mid == (lo + hi) \div 2
         IN  SumRange(s, lo, mid) + SumRange(s, mid + 1, hi)

SumSeq(s) == SumRange(s, 1, Len(s))


(***************************************************************************)
(* Pure functions of data_processor.py.                                    *)
(***************************************************************************)
\* numpy argmin over s[lo..hi]: the position of the minimum, the first one on a
\* tie.  The range is halved (the left half wins a tie), so that the depth of
\* the evaluation stays logarithmic in the length.
RECURSIVE argmin_in(_, _, _)
argmin_in(s, lo, hi) ==
    IF lo = hi THEN lo
    ELSE LET mid == (lo + hi) \div 2
             l == argmin_in(s, lo, mid)
             r == argmin_in(s, mid + 1, hi)
         IN  IF s[r] < s[l] THEN r ELSE l

\* numpy argmax over s[lo..hi]: the position of the maximum, the first one on a tie
RECURSIVE argmax_in(_, _, _)
argmax_in(s, lo, hi) ==
    IF lo = hi THEN lo
    ELSE LET mid == (lo + hi) \div 2
             l == argmax_in(s, lo, mid)
             r == argmax_in(s, mid + 1, hi)
         IN  IF s[r] > s[l] THEN r ELSE l

\* Mutant of idxmin: the last occurrence of the minimum
RECURSIVE argmin_last_in(_, _, _)
argmin_last_in(s, lo, hi) ==
    IF lo = hi THEN lo
    ELSE LET mid == (lo + hi) \div 2
             l == argmin_last_in(s, lo, mid)
             r == argmin_last_in(s, mid + 1, hi)
         IN  IF s[r] <= s[l] THEN r ELSE l

idxmin_last(s) == argmin_last_in(s, 1, Len(s)) - 1

\* Series.idxmin(): label of the first occurrence of the minimum (s non-empty)
idxmin(s) == argmin_in(s, 1, Len(s)) - 1

\* Series.idxmax(): label of the first occurrence of the maximum (s non-empty)
idxmax(s) == argmax_in(s, 1, Len(s)) - 1

\* {'time': df.loc[idx, 'time'], 'force': df.loc[idx, 'force']}
PointAt(d, idx) == [time |-> Loc(d, idx, "time"), force |-> Loc(d, idx, "force")]

\* n^2 times the sum of squared deviations from the mean: Series.std() takes the
\* mean, then the squared deviations from it; with mean = S/n each deviation is
\* (n*x - S)/n.
SqDevN2(w) ==
    LET n == Len(w)
        S == SumSeq(w)
    IN  SumSeq([k \in 1..n |-> (n * w[k] - S) * (n * w[k] - S)])

\* Mutant of StdBelow: the population standard deviation (ddof=0)
StdBelowPopulation(w, t) ==
    LET n == Len(w)
    IN  /\ n >= 1
        /\ t > 0
        /\ SqDevN2(w) < t * t * n * n * n

\* window_data.std() < std_threshold.  std() is the sample standard deviation
\* (ddof=1): sqrt(sum of squared deviations / (n - 1)); for n = 1 it is NaN, and
\* NaN < t is False.  std >= 0, so for t <= 0 the test is False; for t > 0 it is
\* var < t^2, i.e. SqDevN2 / (n^2 (n-1)) < t^2.
StdBelow(w, t) ==
    LET n == Len(w)
    IN  /\ n >= 2
        /\ t > 0
        /\ SqDevN2(w) < t * t * n * n * (n - 1)

\* len(df_after_max), df_after_max = df.iloc[max_force_idx:]
LenAfterMax(d, b) == IF b >= NRows(d) THEN 0 ELSE NRows(d) - b

\* Mutant of AfterMaxLabel: df.index[i], the offset of the slice forgotten
AfterMaxLabelNoOffset(b, k) == k

\* df_after_max.index[i]
AfterMaxLabel(b, k) == b + k

\* Mutant of LastLabel: df.index[0]
FirstLabel(d) == 0

\* last_idx = df.index[-1]
LastLabel(d) == NRows(d) - 1

\* Mutant of WindowData: a trailing window instead of a centred one
WindowDataTrailing(d, cur, w) == LocSlice(d, cur - 2 * w, cur, "force")

\* window_data = df.loc[current_idx - window_size : current_idx + window_size, 'force']
WindowData(d, cur, w) == LocSlice(d, cur - w, cur + w, "force")

RECURSIVE Gcd(_, _)
Gcd(a, b) == IF b = 0 THEN a ELSE Gcd(b, a % b)

Abs(a) == IF a < 0 THEN -a ELSE a

\* a / b (true division, b # 0) as the fraction in lowest terms, den > 0
Quotient(a, b) ==
    LET g == Gcd(Abs(a), Abs(b))
        sgn == IF b < 0 THEN -1 ELSE 1
    IN  [num |-> sgn * (a \div g), den |-> sgn * (b \div g)]

\* Mutant of Rfd: no guard; numpy's division by zero gives inf or nan
RfdNoGuard(delta_force, delta_time) ==
    IF delta_time # 0 THEN Quotient(delta_force, delta_time) ELSE [num |-> 1, den |-> 0]

\* rfd = delta_force / delta_time if delta_time != 0 else 0
Rfd(delta_force, delta_time) ==
    IF delta_time # 0 THEN Quotient(delta_force, delta_time) ELSE [num |-> 0, den |-> 1]

\* Mutant of RecoveryTime: the operands swapped
RecoveryTimeSwapped(c, b) == b.time - c.time

\* recovery_time = point_c['time'] - point_b['time']
RecoveryTime(c, b) == c.time - b.time

\* required_columns - current_columns
MissingColumns(d) == {"time", "force"} \ Range(d.columns)

\* df.rename(columns={time_column: 'time', force_column: 'force'}): a dict
\* literal with the same key twice keeps the last value
Renamed(col, tc, fc) ==
    IF col = fc THEN "force" ELSE IF col = tc THEN "time" ELSE col


(***************************************************************************)
(* Inputs.                                                                 *)
(***************************************************************************)
\* header rows of an uploaded CSV: two distinct column names
Headers == {<<a, b>> : a, b \in HeaderNames} \ {<<a, a>> : a \in HeaderNames}

RowVals == {<<t, f>> : t \in Times, f \in Forces}

\* a flat stretch long enough for the default window: 2*window_size + 2 rows
FlatTail(g) == [k \in 1..(2 * DefaultWindowSize + 2) |-> <<k, g>>]

ShortRows == SeqsUpTo(RowVals, MaxLen)

LongRows == {p \o FlatTail(g) : p \in SeqsUpTo(RowVals, 1), g \in Forces}

CsvFiles == {[columns |-> h, rows |-> r] : h \in Headers, r \in ShortRows \cup LongRows}

\* a series sampled at times 0, 1, 2, ... with the given forces
Sampled(forces) ==
    [columns |-> <<"time", "force">>,
     rows |-> [k \in 1..Len(forces) |-> <<k - 1, forces[k]>>]]

\* spec.md section 8, Scenario 1: [(0,0),(1,-5),(2,10),(3,9.9),(4,10.1),(5,10.0)]
Scenario1 == Sampled(<<0, -50, 100, 99, 101, 100>>)

ScanFrames == {Sampled(f) : f \in SeqsUpTo(ScanForces, MaxScanLen)} \cup {Scenario1}

\* frames handed to process_force_data without one of the required columns
MissingFrames ==
    {[columns |-> h, rows |-> r] :
        h \in {g \in Headers : {"time", "force"} \ Range(g) # {}},
        r \in SeqsUpTo(RowVals, 1)}

(***************************************************************************)
(* Initial states: main() waiting for an upload, or the analysis of a      *)
(* canonical frame with find_balance_point's window_size and std_threshold *)
(* given by the caller instead of defaulted.                               *)
(***************************************************************************)
Locals ==
    /\ time_column = ""
    /\ force_column = ""
    /\ warnings = {}
    /\ min_force_idx = -1
    /\ max_force_idx = -1
    /\ i = 0
    /\ current_idx = -1
    /\ window_data = NoWindow
    /\ examined = <<>>
    /\ by_scan = FALSE
    /\ point_a = NoPoint
    /\ point_b = NoPoint
    /\ point_c = NoPoint
    /\ points = None
    /\ error = ""
    /\ report = FALSE
    /\ download = FALSE

InitMain ==
    /\ caller = "main"
    /\ pc = "idle"
    /\ df = [columns |-> <<>>, rows |-> <<>>]
    /\ window_size = DefaultWindowSize
    /\ std_threshold = DefaultStdThreshold
    /\ Locals

InitDirect ==
    /\ caller = "direct"
    /\ pc = "process"
    /\ df \in ScanFrames \cup MissingFrames
    /\ window_size \in 0..MaxWindow
    /\ std_threshold \in Thresholds
    /\ Locals

Init == InitMain \/ InitDirect

(***************************************************************************)
(* app.py main(), first half.                                              *)
(***************************************************************************)
\* app.py:10-18  uploaded_file is not None; df = pd.read_csv(uploaded_file)
Upload ==
    /\ pc = "idle"
    /\ \E csv \in CsvFiles : df' = csv
    /\ pc' = "select"
    /\ UNCHANGED <<window_data, caller, time_column, force_column, warnings, min_force_idx,
                   max_force_idx, window_size, std_threshold, i, current_idx,
                   examined, by_scan, point_a, point_b, point_c, points, error,
                   report, download>>

\* app.py:20-56  the two selectboxes; the user may pick any column in each
SelectColumns ==
    /\ pc = "select"
    /\ \E tc \in Range(df.columns), fc \in Range(df.columns) :
          /\ time_column' = tc
          /\ force_column' = fc
    /\ pc' = "rename"
    /\ UNCHANGED <<window_data, caller, df, warnings, min_force_idx, max_force_idx,
                   window_size, std_threshold, i, current_idx, examined, by_scan,
                   point_a, point_b, point_c, points, error, report, download>>

\* app.py:58-65  df.rename(...), then the call of process_force_data
Rename ==
    /\ pc = "rename"
    /\ df' = [df EXCEPT !.columns =
                 [k \in DOMAIN df.columns |-> Renamed(df.columns[k], time_column, force_column)]]
    /\ pc' = "process"
    /\ UNCHANGED <<window_data, caller, time_column, force_column, warnings, min_force_idx,
                   max_force_idx, window_size, std_threshold, i, current_idx,
                   examined, by_scan, point_a, point_b, point_c, points, error,
                   report, download>>

(***************************************************************************)
(* data_processor.py process_force_data.                                   *)
(***************************************************************************)
\* :62-74  a required column is missing: warn per missing column, return (df, None)
CheckColumnsMissing ==
    /\ pc = "process"
    /\ MissingColumns(df) # {}
    /\ warnings' = MissingColumns(df)
    /\ points' = None
    /\ pc' = IF caller = "main" THEN "chart" ELSE "done"
    /\ UNCHANGED <<window_data, caller, df, time_column, force_column, min_force_idx,
                   max_force_idx, window_size, std_threshold, i, current_idx,
                   examined, by_scan, point_a, point_b, point_c, error, report,
                   download>>

\* :62-66  both required columns are there
CheckColumnsOk ==
    /\ pc = "process"
    /\ MissingColumns(df) = {}
    /\ pc' = "extrema"
    /\ UNCHANGED <<window_data, caller, df, time_column, force_column, warnings, min_force_idx,
                   max_force_idx, window_size, std_threshold, i, current_idx,
                   examined, by_scan, point_a, point_b, point_c, points, error,
                   report, download>>

\* :77  idxmin of an empty column raises ValueError; nothing catches it
ExtremaRaise ==
    /\ pc = "extrema"
    /\ NRows(df) = 0
    /\ error' = "ValueError"
    /\ pc' = "raised"
    /\ UNCHANGED <<window_data, caller, df, time_column, force_column, warnings, min_force_idx,
                   max_force_idx, window_size, std_threshold, i, current_idx,
                   examined, by_scan, point_a, point_b, point_c, points, report,
                   download>>

\* :76-87  points A and B
Extrema ==
    /\ pc = "extrema"
    /\ NRows(df) > 0
    /\ min_force_idx' = idxmin(Column(df, "force"))
    /\ max_force_idx' = idxmax(Column(df, "force"))
    /\ point_a' = PointAt(df, min_force_idx')
    /\ point_b' = PointAt(df, max_force_idx')
    /\ pc' = "balance"
    /\ UNCHANGED <<window_data, caller, df, time_column, force_column, warnings, window_size,
                   std_threshold, i, current_idx, examined, by_scan, point_c,
                   points, error, report, download>>

(***************************************************************************)
(* data_processor.py find_balance_point.                                   *)
(***************************************************************************)
\* Mutant of BalanceEnter: range(len(df_after_max) - window_size), from 0
BalanceEnterFromZero ==
    /\ pc = "balance"
    /\ i' = 0
    /\ pc' = "scan"
    /\ UNCHANGED <<window_data, caller, df, time_column, force_column, warnings,
                   min_force_idx, max_force_idx, window_size, std_threshold,
                   current_idx, examined, by_scan, point_a, point_b, point_c,
                   points, error, report, download>>

\* :89, :36-39  the call (main: with the defaults of :23) and the loop's start
BalanceEnter ==
    /\ pc = "balance"
    /\ i' = window_size
    /\ pc' = "scan"
    /\ UNCHANGED <<window_data, caller, df, time_column, force_column, warnings, min_force_idx,
                   max_force_idx, window_size, std_threshold, current_idx,
                   examined, by_scan, point_a, point_b, point_c, points, error,
                   report, download>>

\* :39-51  one iteration of the loop
BalanceIter ==
    /\ pc = "scan"
    /\ i < LenAfterMax(df, max_force_idx) - window_size
    /\ current_idx' = AfterMaxLabel(max_force_idx, i)
    /\ examined' = Append(examined, current_idx')
    /\ window_data' = WindowData(df, current_idx', window_size)
    /\ IF StdBelow(window_data'.force, std_threshold)
       THEN /\ point_c' = PointAt(df, current_idx')
            /\ by_scan' = TRUE
            /\ pc' = "metrics"
            /\ i' = i
       ELSE /\ i' = i + 1
            /\ UNCHANGED <<point_c, by_scan, pc>>
    /\ UNCHANGED <<caller, df, time_column, force_column, warnings, min_force_idx,
                   max_force_idx, window_size, std_threshold, point_a, point_b,
                   points, error, report, download>>

\* :53-58  the loop ran out: the last row
BalanceFallback ==
    /\ pc = "scan"
    /\ i >= LenAfterMax(df, max_force_idx) - window_size
    /\ current_idx' = LastLabel(df)
    /\ point_c' = PointAt(df, current_idx')
    /\ by_scan' = FALSE
    /\ pc' = "metrics"
    /\ UNCHANGED <<window_data, caller, df, time_column, force_column, warnings, min_force_idx,
                   max_force_idx, window_size, std_threshold, i, examined,
                   point_a, point_b, points, error, report, download>>

\* :91-108  RFD, recovery time, return (df, points)
Metrics ==
    /\ pc = "metrics"
    /\ points' = [A |-> point_a, B |-> point_b, C |-> point_c,
                  stats |-> [RFD |-> Rfd(point_b.force - point_a.force,
                                         point_b.time - point_a.time),
                             recovery_time |-> RecoveryTime(point_c, point_b)]]
    /\ pc' = IF caller = "main" THEN "chart" ELSE "done"
    /\ UNCHANGED <<window_data, caller, df, time_column, force_column, warnings, min_force_idx,
                   max_force_idx, window_size, std_threshold, i, current_idx,
                   examined, by_scan, point_a, point_b, point_c, error, report,
                   download>>

(***************************************************************************)
(* app.py main(), second half.                                             *)
(***************************************************************************)
\* Mutant of Chart: the chart is drawn whatever the frame and points are
ChartNoRaise ==
    /\ pc = "chart"
    /\ pc' = "stats"
    /\ UNCHANGED <<window_data, caller, df, time_column, force_column, warnings,
                   min_force_idx, max_force_idx, window_size, std_threshold, i,
                   current_idx, examined, by_scan, point_a, point_b, point_c,
                   points, error, report, download>>

\* :67-112  df['time'] / df['force'] raise KeyError on a missing column;
\* points.items() raises AttributeError when points is None
Chart ==
    /\ pc = "chart"
    /\ IF MissingColumns(df) # {}
       THEN error' = "KeyError" /\ pc' = "raised"
       ELSE IF points = None
            THEN error' = "AttributeError" /\ pc' = "raised"
            ELSE error' = error /\ pc' = "stats"
    /\ UNCHANGED <<window_data, caller, df, time_column, force_column, warnings, min_force_idx,
                   max_force_idx, window_size, std_threshold, i, current_idx,
                   examined, by_scan, point_a, point_b, point_c, points, report,
                   download>>

\* :114-128  the five st.metric lines
Stats ==
    /\ pc = "stats"
    /\ pc' = "pdf"
    /\ UNCHANGED <<window_data, caller, df, time_column, force_column, warnings, min_force_idx,
                   max_force_idx, window_size, std_threshold, i, current_idx,
                   examined, by_scan, point_a, point_b, point_c, points, error,
                   report, download>>

\* :131  pdf_file = generate_pdf_report(df, points, fig)
GeneratePdf ==
    /\ pc = "pdf"
    /\ report' = TRUE
    /\ pc' = "offer"
    /\ UNCHANGED <<window_data, caller, df, time_column, force_column, warnings, min_force_idx,
                   max_force_idx, window_size, std_threshold, i, current_idx,
                   examined, by_scan, point_a, point_b, point_c, points, error,
                   download>>

\* :132-140  st.download_button
Download ==
    /\ pc = "offer"
    /\ download' = TRUE
    /\ pc' = "done"
    /\ UNCHANGED <<window_data, caller, df, time_column, force_column, warnings, min_force_idx,
                   max_force_idx, window_size, std_threshold, i, current_idx,
                   examined, by_scan, point_a, point_b, point_c, points, error,
                   report>>

Next ==
    \/ Upload
    \/ SelectColumns
    \/ Rename
    \/ CheckColumnsMissing
    \/ CheckColumnsOk
    \/ ExtremaRaise
    \/ Extrema
    \/ BalanceEnter
    \/ BalanceIter
    \/ BalanceFallback
    \/ Metrics
    \/ Chart
    \/ Stats
    \/ GeneratePdf
    \/ Download

Spec == Init /\ [][Next]_vars


(***************************************************************************)
(* Vocabulary of the properties: the series as the specification sees it.  *)
(***************************************************************************)
HasBothRoles == MissingColumns(df) = {}

N == NRows(df)

F(k) == df.rows[k + 1][CHOOSE c \in DOMAIN df.columns : df.columns[c] = "force"]

T(k) == df.rows[k + 1][CHOOSE c \in DOMAIN df.columns : df.columns[c] = "time"]

Sample(k) == [time |-> T(k), force |-> F(k)]

MinForce == CHOOSE m \in {F(k) : k \in 0..(N - 1)} : \A k \in 0..(N - 1) : m <= F(k)

MaxForce == CHOOSE m \in {F(k) : k \in 0..(N - 1)} : \A k \in 0..(N - 1) : m >= F(k)

\* the smallest index whose force is v
FirstAt(v) == CHOOSE k \in 0..(N - 1) : F(k) = v /\ \A j \in 0..(k - 1) : F(j) # v

IndexA == FirstAt(MinForce)

IndexB == FirstAt(MaxForce)

TimeMonotone == \A k \in 1..(N - 1) : T(k - 1) <= T(k)

\* process_force_data has returned a result
HasResult == points # None

\* find_balance_point has returned
Returned == pc \in {"metrics", "chart", "stats", "pdf", "offer", "done"} /\ current_idx >= 0

\* the candidate indices b+w, ..., N-1-w
Cands == (max_force_idx + window_size)..(N - 1 - window_size)

\* the forces at the closed index range [lo, hi]
ForcesAt(lo, hi) == [k \in 1..(hi - lo + 1) |-> F(lo + k - 1)]

\* sample standard deviation (N-1 denominator) of x strictly below t:
\* variance = (n*sum(x^2) - sum(x)^2) / (n*(n-1)); undefined for n = 1
SampleStdBelow(x, t) ==
    LET n == Len(x)
        S == SumSeq(x)
        Q == SumSeq([k \in 1..n |-> x[k] * x[k]])
    IN  n >= 2 /\ t > 0 /\ n * Q - S * S < t * t * n * (n - 1)

SampleStdEquals(x, t) ==
    LET n == Len(x)
        S == SumSeq(x)
        Q == SumSeq([k \in 1..n |-> x[k] * x[k]])
    IN  n >= 2 /\ t > 0 /\ n * Q - S * S = t * t * n * (n - 1)

Qualifies(c) == SampleStdBelow(ForcesAt(c - window_size, c + window_size), std_threshold)

Qualifying == {c \in Cands : Qualifies(c)}

(***************************************************************************)
(* C1.  With at least one sample and both roles, A is the sample at the    *)
(* smallest index holding the minimum force and B the sample at the        *)
(* smallest index holding the maximum force; every sample's force lies     *)
(* between A's and B's.                                                    *)
(***************************************************************************)
C1_ExtremaFirstOccurrence ==
    HasResult =>
        /\ points.A = Sample(IndexA)
        /\ points.B = Sample(IndexB)
        /\ \A k \in 0..(N - 1) : points.A.force <= F(k) /\ F(k) <= points.B.force

C1_Witness ==
    /\ HasResult
    /\ MinForce < MaxForce
    /\ \E j \in 0..(N - 1) : j > IndexA /\ F(j) = MinForce
    /\ \E j \in 0..(N - 1) : j > IndexB /\ F(j) = MaxForce

(***************************************************************************)
(* C2.  The scan tests the candidates b+w, b+w+1, ... in increasing order  *)
(* and returns the first one whose sample standard deviation over          *)
(* [i-w, i+w] is strictly below std_threshold: a candidate is returned     *)
(* exactly when some candidate qualifies, it is the smallest qualifying    *)
(* one, and the candidates tested are those from b+w up to it.             *)
(***************************************************************************)
C2_FirstQualifyingCandidate ==
    /\ max_force_idx >= 0 =>
          \A k \in DOMAIN examined : examined[k] = max_force_idx + window_size + k - 1
    /\ Returned =>
          /\ by_scan <=> Qualifying # {}
          /\ by_scan =>
                /\ current_idx \in Qualifying
                /\ \A c \in Qualifying : current_idx <= c
                /\ point_c = Sample(current_idx)
                /\ Len(examined) = current_idx - (max_force_idx + window_size) + 1

C2_Witness ==
    /\ Returned
    /\ by_scan
    /\ \E c \in Cands :
          /\ c < current_idx
          /\ SampleStdEquals(ForcesAt(c - window_size, c + window_size), std_threshold)
    /\ \E c \in Qualifying : c > current_idx

(***************************************************************************)
(* C3.  When no candidate qualifies, or the sub-series from B has at most  *)
(* 2*window_size samples, C is the last sample of the whole series; a      *)
(* 3-sample upload analysed with the default window gets C = last sample   *)
(* and recovery_time = last.time - B.time.                                 *)
(***************************************************************************)
C3_FallbackToLastSample ==
    /\ (Returned /\ (Qualifying = {} \/ N - max_force_idx <= 2 * window_size)) =>
          /\ ~by_scan
          /\ current_idx = N - 1
          /\ point_c = Sample(N - 1)
    /\ (HasResult /\ caller = "main" /\ N = 3) =>
          /\ points.C = Sample(N - 1)
          /\ points.stats.recovery_time = T(N - 1) - points.B.time

C3_Witness ==
    /\ Returned
    /\ ~by_scan
    /\ Len(examined) >= 2
    /\ current_idx = N - 1

(***************************************************************************)
(* C4.  The sample returned as C lies at an index >= the index of B,       *)
(* whether the scan or the fallback chose it.                              *)
(***************************************************************************)
C4_BalanceNotBeforePeak ==
    Returned =>
        /\ current_idx \in IndexB..(N - 1)
        /\ point_c = Sample(current_idx)

C4_Witness ==
    /\ Returned
    /\ by_scan
    /\ IndexB > 0
    /\ current_idx = IndexB + window_size

(***************************************************************************)
(* C5.  For a series whose times never decrease, recovery_time is          *)
(* C.time - B.time, is >= 0, and is 0 when C is the same sample as B.      *)
(***************************************************************************)
C5_RecoveryTimeNonNegative ==
    (HasResult /\ TimeMonotone) =>
        /\ points.stats.recovery_time = T(current_idx) - T(IndexB)
        /\ points.stats.recovery_time = points.C.time - points.B.time
        /\ points.stats.recovery_time >= 0
        /\ current_idx = IndexB => points.stats.recovery_time = 0

C5_Witness ==
    /\ HasResult
    /\ caller = "main"
    /\ TimeMonotone
    /\ by_scan
    /\ points.stats.recovery_time > 0

(***************************************************************************)
(* C6.  RFD is (B.force - A.force) / (B.time - A.time) when the two times  *)
(* differ and 0 when they are equal; no division by zero happens.          *)
(***************************************************************************)
C6_RateOfForceDevelopment ==
    HasResult =>
        LET r == points.stats.RFD
            dF == F(IndexB) - F(IndexA)
            dT == T(IndexB) - T(IndexA)
        IN  /\ r.den > 0
            /\ dT # 0 => r.num * dT = r.den * dF
            /\ dT = 0 => r.num = 0

C6_Witness ==
    /\ HasResult
    /\ IndexA # IndexB
    /\ T(IndexB) = T(IndexA)
    /\ points.stats.RFD.num = 0

(***************************************************************************)
(* C7.  With the time or the force role absent, process_force_data names   *)
(* the absent roles, computes none of A, B, C and returns no result, and   *)
(* main never runs generate_pdf_report nor offers a download.              *)
(***************************************************************************)
C7_MissingColumnsNoReport ==
    (~HasBothRoles /\ pc \notin {"idle", "select", "rename"}) =>
        /\ pc \in {"process", "chart", "raised", "done"}
        /\ pc # "process" => warnings = {"time", "force"} \ Range(df.columns)
        /\ points = None
        /\ point_a = NoPoint /\ point_b = NoPoint /\ point_c = NoPoint
        /\ min_force_idx = -1 /\ max_force_idx = -1 /\ current_idx = -1
        /\ ~report
        /\ ~download

C7_Witness ==
    /\ caller = "main"
    /\ ~HasBothRoles
    /\ pc = "raised"
    /\ warnings = {"time"}
    /\ ~report
    /\ ~download

(***************************************************************************)
(* C8.  For every series that has both roles, whatever its length,         *)
(* process_force_data completes with a result; nothing but missing columns *)
(* keeps it from returning one.                                            *)
(***************************************************************************)
C8_AlwaysAResult ==
    (HasBothRoles /\ pc \in {"chart", "stats", "pdf", "offer", "done", "raised"}) =>
        /\ HasResult
        /\ error = ""

(***************************************************************************)
(* C9.  Scenario 1 with window_size=1 and std_threshold=0.2.               *)
(* As claimed: A = (1, -5), B = (4, 10.1) and C is a candidate at an index *)
(* >= 4 that the scan found.  As the code has it: A and B as claimed, but  *)
(* the sub-series from B has 2 samples, so the scan has no candidate and C *)
(* is the last sample (5, 10.0), by the fallback.                          *)
(***************************************************************************)
Scenario1Run ==
    /\ caller = "direct"
    /\ df = Scenario1
    /\ window_size = 1
    /\ std_threshold = 2
    /\ HasResult

\* C9 as claimed: A = (1, -5), B = (4, 10.1), C found by the scan at an index >= 4
C9_Scenario1ScanFindsC ==
    Scenario1Run =>
        /\ points.A = [time |-> 1, force |-> -50]
        /\ points.B = [time |-> 4, force |-> 101]
        /\ by_scan
        /\ current_idx >= 4
        /\ Qualifies(current_idx)

\* C9 as the code has it: A = (1, -5), B = (4, 10.1), no candidate is tested
\* and C is the last sample (5, 10.0), so recovery_time = 1
C9_Scenario1FallsBack ==
    Scenario1Run =>
        /\ points.A = [time |-> 1, force |-> -50]
        /\ points.B = [time |-> 4, force |-> 101]
        /\ ~by_scan
        /\ examined = <<>>
        /\ points.C = [time |-> 5, force |-> 100]
        /\ points.stats.recovery_time = 1

C9_Witness == Scenario1Run /\ pc = "done"

(***************************************************************************)
(* C10.  As claimed: the window of a candidate close to B reaches back     *)
(* past B's index, so the candidate closest to B (the first one tested)    *)
(* has a window starting before B whenever B is not the first sample and   *)
(* window_size >= 1.  As the code has it: every window starts at or after  *)
(* B's index, is the same as the window cut from the sub-series that       *)
(* starts at B, and the scan over that sub-series alone returns the same   *)
(* C.                                                                      *)
(***************************************************************************)
\* C10 as claimed: with B not the first sample and window_size >= 1, the window
\* of the first candidate tested starts before B's index
C10_WindowReachesBeforePeak ==
    (Len(examined) = 1 /\ max_force_idx > 0 /\ window_size >= 1) =>
        window_data.first < max_force_idx

\* the scan with its windows cut from the sub-series starting at B
SubSeries == [k \in 1..(N - max_force_idx) |-> F(max_force_idx + k - 1)]

SubWindow(p) == [k \in 1..(2 * window_size + 1) |-> SubSeries[p - window_size + k]]

SubQualifying ==
    {p \in window_size..(Len(SubSeries) - window_size - 1) :
        SampleStdBelow(SubWindow(p), std_threshold)}

RebasedIndexOfC ==
    IF SubQualifying = {} THEN N - 1
    ELSE max_force_idx + (CHOOSE p \in SubQualifying : \A q \in SubQualifying : p <= q)

\* C10 as the code has it: each window tested is [i-w, i+w] in the original
\* index space, starts at or after B's index and equals the window cut from the
\* sub-series starting at B; the scan over the sub-series returns the same C
C10_WindowStaysAfterPeak ==
    /\ examined # <<>> =>
          LET last == examined[Len(examined)]
          IN  /\ window_data.first = last - window_size
              /\ window_data.last = last + window_size
              /\ window_data.first >= max_force_idx
              /\ window_data.force = SubWindow(last - max_force_idx)
    /\ Returned => current_idx = RebasedIndexOfC

C10_Witness ==
    /\ Returned
    /\ by_scan
    /\ max_force_idx > 0
    /\ window_size >= 1
    /\ Len(examined) >= 2
    /\ window_data.first = max_force_idx + 1

=============================================================================
